---- MODULE Spec2Model ----
(***************************************************************************)
(* CNearestNeighbor::Set_TransferCoeff (SU2, nearest-neighbour interface   *)
(* interpolation) as a state machine: nProcessor MPI ranks each run the    *)
(* marker loop, meet in two collectives per processed marker, and search   *)
(* their local target vertices inside an OpenMP parallel region.           *)
(***************************************************************************)
EXTENDS Integers, Sequences, FiniteSets, TLC

(* ------------------------------ bounds -------------------------------- *)

\* Largest number of MPI ranks (size) a run is started with.
MaxProc == 2
\* Largest omp_get_max_threads().
MaxThreads == 2
\* Largest configured number of nearest neighbours (GetNumNearestNeighbors).
MaxNDonor == 2
\* Interface markers of the whole-program runs (GetMarker_n_ZoneInterface()/2).
MaxMarkerInt == 2
\* Donor points of one interface: global identifiers 0 .. MaxCloud-1.
MaxCloud == 3
\* Target points of one interface in the whole-program runs.
MaxTarget == 2
\* Coordinates are integers 0 .. MaxCoord in each direction.
MaxCoord == 1
\* eps is 1/EpsInv: numeric_limits<passivedouble>::epsilon() is 2^-52, far
\* outside the model's integers; the exact-arithmetic claims do not depend on
\* its size, only on eps > 0.
EpsInv == 4

(* --------------------------- exact rationals -------------------------- *)

RECURSIVE GCD(_, _)
GCD(a, b) == IF b = 0 THEN a ELSE GCD(b, a % b)

\* The fraction n/d (n >= 0, d > 0) in lowest terms.
Rat(n, d) == LET g == GCD(n, d) IN <<n \div g, d \div g>>

LCM(a, b) == (a \div GCD(a, b)) * b

RAdd(x, y) ==
  LET l == LCM(x[2], y[2])
  IN  Rat(x[1] * (l \div x[2]) + y[1] * (l \div y[2]), l)

\* x / y for y > 0.
RDiv(x, y) == Rat(x[1] * y[2], x[2] * y[1])

RZero == <<0, 1>>
ROne == <<1, 1>>

RECURSIVE RSum(_)
RSum(s) == IF s = <<>> THEN RZero ELSE RAdd(s[1], RSum(Tail(s)))

(* ------------------------------ geometry ------------------------------ *)

nDim == 2

Ranks(np) == 0 .. np - 1

Grid == {<<x, y>> : x \in 0 .. MaxCoord, y \in 0 .. MaxCoord}

\* Where the donor point with global identifier g lies.
DonorCoord(g) == <<g % (MaxCoord + 1), (g \div (MaxCoord + 1)) % (MaxCoord + 1)>>

\* Where the j-th target point of the whole-program runs lies.
TargetCoord(j) == <<(j + 1) % (MaxCoord + 1), j % (MaxCoord + 1)>>

RECURSIVE SortedSeq(_)
SortedSeq(S) ==
  IF S = {} THEN <<>>
  ELSE LET x == CHOOSE y \in S : \A z \in S : y <= z
       IN  <<x>> \o SortedSeq(S \ {x})

\* One interface marker as the geometry collaborator presents it to the
\* ranks: part[g] is the rank that holds donor point g, tgt[r] the target
\* vertices of rank r. A rank's marker id is -1 when it holds no vertex of it.
MarkerGeom(np, part, tgt) ==
  LET own(r) == SortedSeq({g \in DOMAIN part : part[g] = r})
      don(r) == [i \in 1 .. Len(own(r)) |->
                   [gid |-> own(r)[i], coord |-> DonorCoord(own(r)[i])]]
  IN  [donor      |-> [r \in Ranks(np) |-> don(r)],
       markDonor  |-> [r \in Ranks(np) |-> IF own(r) = <<>> THEN -1 ELSE 0],
       target     |-> tgt,
       markTarget |-> [r \in Ranks(np) |-> IF tgt[r] = <<>> THEN -1 ELSE 0]]

\* The whole-program runs: nd donor points dealt to the ranks from the last
\* rank down, nt target points owned in turn by the ranks, each also a halo
\* vertex of the next rank.
DealtGeom(np, nd, nt) ==
  LET part == [g \in 0 .. nd - 1 |-> np - 1 - (g % np)]
      mine(r) == SortedSeq({j \in 0 .. nt - 1 : r = j % np \/ r = (j + 1) % np})
      tgt == [r \in Ranks(np) |->
                [i \in 1 .. Len(mine(r)) |->
                   [coord  |-> TargetCoord(mine(r)[i]),
                    domain |-> (r = mine(r)[i] % np)]]]
  IN  MarkerGeom(np, part, tgt)

\* The search runs: any set of donor points, dealt to the ranks in any way,
\* and at most one target vertex, anywhere on the grid, owned or halo.
FreeGeoms(np) ==
  LET clouds == SUBSET (0 .. MaxCloud - 1)
      none == [r \in Ranks(np) |-> <<>>]
      tgts == {none} \cup
              {[none EXCEPT ![r] = <<[coord |-> c, domain |-> d]>>] :
                 r \in Ranks(np), c \in Grid, d \in BOOLEAN}
  IN  UNION {{MarkerGeom(np, part, tgt) : part \in [cloud -> Ranks(np)], tgt \in tgts} :
               cloud \in clouds}

(* --------------------- the gathered donor buffers --------------------- *)

\* What a padding slot of a gathered buffer holds, and what a read outside a
\* buffer yields: values no donor point carries.
PadValue == -(MaxCloud + 1)
OutOfRange == -(MaxCloud + 2)

\* buf[i] of a C array kept as a sequence.
At(buf, i) == IF i + 1 \in DOMAIN buf THEN buf[i + 1] ELSE OutOfRange

RECURSIVE Flatten(_)
Flatten(ss) == IF ss = <<>> THEN <<>> ELSE ss[1] \o Flatten(Tail(ss))

\* Determine_ArraySize: the count every rank sent, by rank.
ReceivedCounts(np, sent) == [r \in Ranks(np) |-> sent[r]]

\* Determine_ArraySize: the largest count over the ranks.
MaxCount(np, sent) ==
  CHOOSE c \in {sent[r] : r \in Ranks(np)} : \A r \in Ranks(np) : sent[r] <= c

\* Collect_VertexInfo: a rank's send buffers, its own vertices first and
\* padding up to maxLoc slots.
SendSlice(don, maxLoc) ==
  [gp    |-> [j \in 1 .. maxLoc |-> IF j <= Len(don) THEN don[j].gid ELSE PadValue],
   coord |-> Flatten([j \in 1 .. maxLoc |->
                        IF j <= Len(don) THEN don[j].coord
                        ELSE [k \in 1 .. nDim |-> PadValue]])]

\* Collect_VertexInfo: the receive buffers, the ranks' slices in rank order.
Gathered(np, slices) ==
  [gp    |-> Flatten([i \in 1 .. np |-> slices[i - 1].gp]),
   coord |-> Flatten([i \in 1 .. np |-> slices[i - 1].coord])]

(* ----------------------- the search of one target --------------------- *)

DonorInfo(d, i, p) == [dist |-> d, pidx |-> i, proc |-> p]

RECURSIVE SumSq(_, _, _)
SumSq(n, a, b) ==
  IF n = 0 THEN 0 ELSE (a[n] - b[n]) * (a[n] - b[n]) + SumSq(n - 1, a, b)

PointsSquareDistance(n, a, b) == SumSq(n, a, b)

\* A plausible slip: the rank and the slot exchanged in the flat index.
Idx_Transposed(iProcessor, jVertex, maxLoc) == jVertex * maxLoc + iProcessor

\* const auto idx = iProcessor*MaxLocalVertex_Donor + jVertex;
Idx(iProcessor, jVertex, maxLoc) == iProcessor * maxLoc + jVertex

\* const su2double* Coord_j = &Buffer_Receive_Coord[idx*nDim];
Coord_j(coordBuf, idx) == [k \in 1 .. nDim |-> At(coordBuf, idx * nDim + k - 1)]

\* The candidates of one target in scan order: rank by rank, slot by slot.
RECURSIVE ScanFrom(_, _, _, _, _, _)
ScanFrom(r, np, cnt, maxLoc, bufs, Coord_i) ==
  IF r >= np THEN <<>>
  ELSE [j \in 1 .. cnt[r] |->
          DonorInfo(PointsSquareDistance(nDim, Coord_i,
                                         Coord_j(bufs.coord, Idx(r, j - 1, maxLoc))),
                    At(bufs.gp, Idx(r, j - 1, maxLoc)),
                    r)]
       \o ScanFrom(r + 1, np, cnt, maxLoc, bufs, Coord_i)

CandidateList(np, cnt, maxLoc, bufs, Coord_i) ==
  ScanFrom(0, np, cnt, maxLoc, bufs, Coord_i)

\* Lines 113-118: the reads of the gathered buffers for one target, each by
\* its rank, its slot and the flat index idx it uses.
FillReads(np, cnt, maxLoc) ==
  UNION {{[proc |-> r, slot |-> j, idx |-> Idx(r, j, maxLoc)] : j \in 0 .. cnt[r] - 1} :
           r \in Ranks(np)}

\* Line 121, donorInfo[iDonor++] = ...: the scratch slots the fill loop
\* writes for the candidates cand, one after the other from slot 0.
FillWrites(cand) == 0 .. Len(cand) - 1

\* Lines 126-132: the scratch slots the partial sort and the weights loop
\* write: partial_sort orders [begin, begin + nDonor) and looks through the
\* rest up to end, donorInfo[iDonor].dist is assigned for iDonor < nDonor.
SortWrites(size, k) == 0 .. (IF k > size THEN k ELSE size) - 1

\* A plausible slip: the comparison the wrong way round.
Closer_Reversed(a, b) == a.dist > b.dist

\* [](const DonorInfo& a, const DonorInfo& b){return a.dist < b.dist;}
Closer(a, b) == a.dist < b.dist

\* std::partial_sort(first, first+k, last, comp) over mem: any arrangement
\* whose first k entries are in order and are not preceded under comp by an
\* entry left behind. The standard fixes no order among entries that compare
\* equal, so every such front is an outcome.
PartialSortFronts(mem, k) ==
  LET n == Len(mem)
      fronts == {f \in [1 .. k -> 1 .. n] :
                   /\ \A i, j \in 1 .. k : i # j => f[i] # f[j]
                   /\ \A i \in 1 .. k - 1 : ~Closer(mem[f[i + 1]], mem[f[i]])
                   /\ \A j \in 1 .. n :
                        (\A i \in 1 .. k : f[i] # j) =>
                          \A i \in 1 .. k : ~Closer(mem[j], mem[f[i]])}
  IN  {[i \in 1 .. k |-> mem[f[i]]] : f \in fronts}

\* donorInfo[iDonor].dist = 1.0 / (donorInfo[iDonor].dist + eps);
InterpNumerator(d) == Rat(EpsInv, d * EpsInv + 1)

\* A plausible slip: the last selected donor left out of the sum.
InterpDenominator_ShortLoop(front) ==
  RSum([i \in 1 .. Len(front) - 1 |-> InterpNumerator(front[i].dist)])

\* denom += donorInfo[iDonor].dist;  for iDonor < nDonor
InterpDenominator(front) ==
  RSum([i \in 1 .. Len(front) |-> InterpNumerator(front[i].dist)])

\* Allocate_DonorInfo(nDonor), then the three setters per entry.
TransferRecord(front) ==
  [i \in 1 .. Len(front) |->
     [pidx  |-> front[i].pidx,
      proc  |-> front[i].proc,
      coeff |-> RDiv(InterpNumerator(front[i].dist), InterpDenominator(front))]]

\* An identifier and a rank that belong to no donor of the run.
StrayPoint == MaxCloud + 7
StrayRank == MaxProc + 7

\* What a scratch slot that the fill loop did not write may hold: an entry as
\* the constructor's defaults leave it, or anything else.
Indeterminate == {DonorInfo(0, 0, 0), DonorInfo(1, StrayPoint, StrayRank)}

Aborted == [abort |-> TRUE, rec |-> <<>>]
Stored(r) == [abort |-> FALSE, rec |-> r]

\* Lines 126-143 for one target: cand are the n slots the fill loop wrote, k
\* is nDonor, cap the slots the scratch vector's allocation holds. With
\* k <= n the first k of the partial sort are stored. With k > n the sort and
\* the two loops run over slots n .. k-1 that were not filled (undefined
\* behaviour): inside the allocation they hold whatever was left there,
\* outside it the access lands in foreign memory or faults; a vector that
\* never allocated has a null data pointer and faults.
SearchOutcomes(cand, k, cap) ==
  LET n == Len(cand)
  IN  IF k <= n
      THEN {Stored(TransferRecord(f)) : f \in PartialSortFronts(cand, k)}
      ELSE (IF k > cap THEN {Aborted} ELSE {})
           \cup
           (IF cap = 0 THEN {}
            ELSE UNION {{Stored(TransferRecord(f)) : f \in PartialSortFronts(cand \o g, k)} :
                          g \in [1 .. k - n -> Indeterminate]})

(* ------------------------------- state -------------------------------- *)

VARIABLES
  nProcessor,      \* size: the number of MPI ranks
  nThreads,        \* omp_get_max_threads()
  nDonor,          \* max(GetNumNearestNeighbors(), 1)
  nMarkerInt,      \* GetMarker_n_ZoneInterface()/2
  geo,             \* geo[m]: interface marker m as the ranks see it
  pc,              \* pc[p]: where rank p stands in Set_TransferCoeff
  iMarkerInt,      \* iMarkerInt[p]: rank p's loop counter
  live,            \* live[p]: the exchange buffers rank p holds allocated
  memErr,          \* memErr[p]: misuses of an exchange buffer so far
  Buffer_Receive_nVertex_Donor,
  MaxLocalVertex_Donor,
  nPossibleDonor,
  Buffer_Receive,  \* Buffer_Receive[p]: .gp is Buffer_Receive_GlobalPoint, .coord Buffer_Receive_Coord
  DonorInfoVec,    \* DonorInfoVec[p][t]: size and allocation of a scratch vector
  tpc,             \* tpc[p][t]: where thread t of rank p stands in the parallel region
  chunk,           \* chunk[p][t]: the iterations thread t holds, [cur, hi)
  nextIter,        \* nextIter[p]: first iteration the dynamic schedule has not handed out
  acc,             \* acc[p][t]: what thread t's current step reads and writes
  race,            \* race[p]: two threads' steps overlapped on a location one of them writes
  rec,             \* rec[p][m][v]: the transfer record of target vertex v of marker m on rank p
  stores,          \* stores[p][m][v]: how many times that record was allocated and written
  sizeIn,          \* sizeIn[m][r]: the count rank r brought to the count exchange, -1 before
  gathIn,          \* gathIn[m][r]: the slices rank r brought to the gather, <<>> before
  calls            \* calls[p]: the collectives rank p has called, in order

vars == <<nProcessor, nThreads, nDonor, nMarkerInt, geo, pc, iMarkerInt, live,
          memErr, Buffer_Receive_nVertex_Donor, MaxLocalVertex_Donor,
          nPossibleDonor, Buffer_Receive, DonorInfoVec, tpc, chunk, nextIter,
          acc, race, rec, stores, sizeIn, gathIn, calls>>

inputs == <<nProcessor, nThreads, nDonor, nMarkerInt, geo>>

records == <<rec, stores>>

AllRanks == Ranks(nProcessor)
Threads == 0 .. nThreads - 1
Markers == 1 .. nMarkerInt

NoAccess == [rd |-> {}, wr |-> {}]

InitState(np, nt, k, nm, g) ==
  /\ nProcessor = np
  /\ nThreads = nt
  /\ nDonor = k
  /\ nMarkerInt = nm
  /\ geo = g
  /\ pc = [p \in Ranks(np) |-> "start"]
  /\ iMarkerInt = [p \in Ranks(np) |-> 0]
  /\ live = [p \in Ranks(np) |-> {}]
  /\ memErr = [p \in Ranks(np) |-> {}]
  /\ Buffer_Receive_nVertex_Donor = [p \in Ranks(np) |-> <<>>]
  /\ MaxLocalVertex_Donor = [p \in Ranks(np) |-> 0]
  /\ nPossibleDonor = [p \in Ranks(np) |-> 0]
  /\ Buffer_Receive = [p \in Ranks(np) |-> [gp |-> <<>>, coord |-> <<>>]]
  /\ DonorInfoVec = [p \in Ranks(np) |-> <<>>]
  /\ tpc = [p \in Ranks(np) |-> [t \in 0 .. nt - 1 |-> "idle"]]
  /\ chunk = [p \in Ranks(np) |-> [t \in 0 .. nt - 1 |-> [cur |-> 0, hi |-> 0]]]
  /\ nextIter = [p \in Ranks(np) |-> 0]
  /\ acc = [p \in Ranks(np) |-> [t \in 0 .. nt - 1 |-> NoAccess]]
  /\ race = [p \in Ranks(np) |-> FALSE]
  /\ rec = [p \in Ranks(np) |-> [m \in 1 .. nm |->
              [v \in 1 .. Len(g[m].target[p]) |-> <<>>]]]
  /\ stores = [p \in Ranks(np) |-> [m \in 1 .. nm |->
                 [v \in 1 .. Len(g[m].target[p]) |-> 0]]]
  /\ sizeIn = [m \in 1 .. nm |-> [r \in Ranks(np) |-> -1]]
  /\ gathIn = [m \in 1 .. nm |-> [r \in Ranks(np) |-> <<>>]]
  /\ calls = [p \in Ranks(np) |-> <<>>]

\* Whole-program runs: several ranks or several threads, every number of
\* neighbours, and on every marker every number of donor and target points.
\* The ranks' parallel regions share no state (every thread step reads and
\* writes its own rank's entries only), so runs with several ranks are taken
\* with one thread each.
Init ==
  \E np \in 1 .. MaxProc, nt \in 1 .. MaxThreads, k \in 1 .. MaxNDonor :
    /\ np = 1 \/ nt = 1
    /\ \E g \in [1 .. MaxMarkerInt ->
                  {DealtGeom(np, nd, ntg) : nd \in 0 .. MaxCloud, ntg \in 0 .. MaxTarget}] :
         InitState(np, nt, k, MaxMarkerInt, g)

\* Search runs: one marker, one thread, any donor cloud dealt in any way.
InitSearch ==
  \E np \in 1 .. MaxProc, k \in 1 .. MaxNDonor :
    \E g \in [{1} -> FreeGeoms(np)] :
      InitState(np, 1, k, 1, g)

(* ---------------------------- the marker loop ------------------------- *)

ExchangeBuffers == {"Buffer_Send_Coord", "Buffer_Send_GlobalPoint",
                    "Buffer_Receive_Coord", "Buffer_Receive_GlobalPoint"}

\* Find_InterfaceMarker on the donor and on the target zone.
markDonor(p, m) == geo[m].markDonor[p]
markTarget(p, m) == geo[m].markTarget[p]

\* CheckInterfaceBoundary: the marker is processed unless neither zone holds
\* it; the decision is the same on every rank.
CheckInterfaceBoundary(m) ==
  \/ \E r \in AllRanks : markDonor(r, m) # -1
  \/ \E r \in AllRanks : markTarget(r, m) # -1

\* if(markDonor != -1) nVertexDonor = donor_geometry->GetnVertex( markDonor );
nVertexDonor(p, m) == IF markDonor(p, m) # -1 THEN Len(geo[m].donor[p]) ELSE 0

\* if(markTarget != -1) nVertexTarget = target_geometry->GetnVertex( markTarget );
nVertexTarget(p, m) == IF markTarget(p, m) # -1 THEN Len(geo[m].target[p]) ELSE 0

\* A use of buffer b by rank p: an error unless b is allocated.
Use(p, bs) == IF bs \subseteq live[p] THEN {} ELSE {"use of a buffer that is not allocated"}

\* Lines 59-61 and the loop's initialisation.
Start(p) ==
  /\ pc[p] = "start"
  /\ pc' = [pc EXCEPT ![p] = "loop"]
  /\ live' = [live EXCEPT ![p] = @ \cup {"Buffer_Receive_nVertex_Donor"}]
  /\ DonorInfoVec' = [DonorInfoVec EXCEPT ![p] =
                        [i \in Threads |-> [size |-> 0, cap |-> 0]]]
  /\ iMarkerInt' = [iMarkerInt EXCEPT ![p] = 1]
  /\ UNCHANGED <<inputs, memErr, Buffer_Receive_nVertex_Donor, MaxLocalVertex_Donor,
                 nPossibleDonor, Buffer_Receive, tpc, chunk, nextIter, acc, race,
                 records, sizeIn, gathIn, calls>>

\* Lines 65-74 when the gate fails: continue.
MarkerSkip(p) ==
  /\ pc[p] = "loop"
  /\ iMarkerInt[p] <= nMarkerInt
  /\ ~CheckInterfaceBoundary(iMarkerInt[p])
  /\ iMarkerInt' = [iMarkerInt EXCEPT ![p] = @ + 1]
  /\ UNCHANGED <<inputs, pc, live, memErr, Buffer_Receive_nVertex_Donor,
                 MaxLocalVertex_Donor, nPossibleDonor, Buffer_Receive, DonorInfoVec,
                 tpc, chunk, nextIter, acc, race, records, sizeIn, gathIn, calls>>

\* Lines 65-81 when the gate passes, up to the call of Determine_ArraySize,
\* where the rank hands in its count and blocks.
MarkerEnter(p) ==
  LET m == iMarkerInt[p] IN
  /\ pc[p] = "loop"
  /\ m <= nMarkerInt
  /\ CheckInterfaceBoundary(m)
  /\ sizeIn' = [sizeIn EXCEPT ![m][p] = nVertexDonor(p, m)]
  /\ calls' = [calls EXCEPT ![p] = Append(@, <<"Determine_ArraySize", m>>)]
  /\ pc' = [pc EXCEPT ![p] = "Determine_ArraySize"]
  /\ UNCHANGED <<inputs, iMarkerInt, live, memErr, Buffer_Receive_nVertex_Donor,
                 MaxLocalVertex_Donor, nPossibleDonor, Buffer_Receive, DonorInfoVec,
                 tpc, chunk, nextIter, acc, race, records, gathIn>>

\* accumulate(Buffer_Receive_nVertex_Donor, Buffer_Receive_nVertex_Donor+nProcessor, 0ul)
RECURSIVE Accumulate(_, _)
Accumulate(cnt, n) == IF n = 0 THEN 0 ELSE cnt[n - 1] + Accumulate(cnt, n - 1)

\* A plausible slip: the search started before Collect_VertexInfo is called.
PhaseAfterArraySize_Search == "search"

\* Lines 86-92: after Determine_ArraySize the buffers are allocated and
\* Collect_VertexInfo is called, before the parallel region of line 95.
PhaseAfterArraySize == "Collect_VertexInfo"

\* Determine_ArraySize returns once every rank has handed in its count;
\* lines 83-92 follow, up to the call of Collect_VertexInfo, where the rank
\* hands in its padded slices and blocks.
SizeDone(p) ==
  LET m == iMarkerInt[p]
      cnt == ReceivedCounts(nProcessor, sizeIn[m])
      maxLoc == MaxCount(nProcessor, sizeIn[m])
      don == IF markDonor(p, m) # -1 THEN geo[m].donor[p] ELSE <<>>
  IN
  /\ pc[p] = "Determine_ArraySize"
  /\ \A r \in AllRanks : sizeIn[m][r] # -1
  /\ Buffer_Receive_nVertex_Donor' = [Buffer_Receive_nVertex_Donor EXCEPT ![p] = cnt]
  /\ MaxLocalVertex_Donor' = [MaxLocalVertex_Donor EXCEPT ![p] = maxLoc]
  /\ nPossibleDonor' = [nPossibleDonor EXCEPT ![p] = Accumulate(cnt, nProcessor)]
  /\ memErr' = [memErr EXCEPT ![p] =
                  @ \cup Use(p, {"Buffer_Receive_nVertex_Donor"})
                    \cup (IF live[p] \cap ExchangeBuffers = {} THEN {}
                          ELSE {"allocation over a buffer still allocated"})]
  /\ live' = [live EXCEPT ![p] = @ \cup ExchangeBuffers]
  /\ gathIn' = [gathIn EXCEPT ![m][p] = <<SendSlice(don, maxLoc)>>]
  /\ calls' = [calls EXCEPT ![p] = Append(@, <<"Collect_VertexInfo", m>>)]
  /\ pc' = [pc EXCEPT ![p] = PhaseAfterArraySize]
  /\ UNCHANGED <<inputs, iMarkerInt, Buffer_Receive, DonorInfoVec, tpc, chunk,
                 nextIter, acc, race, records, sizeIn>>

\* Collect_VertexInfo returns once every rank has handed in its slices; the
\* parallel region of line 95 starts.
CollectDone(p) ==
  LET m == iMarkerInt[p] IN
  /\ pc[p] = "Collect_VertexInfo"
  /\ \A r \in AllRanks : gathIn[m][r] # <<>>
  /\ Buffer_Receive' = [Buffer_Receive EXCEPT ![p] =
                          Gathered(nProcessor, [r \in AllRanks |-> gathIn[m][r][1]])]
  /\ memErr' = [memErr EXCEPT ![p] = @ \cup Use(p, ExchangeBuffers)]
  /\ pc' = [pc EXCEPT ![p] = "search"]
  /\ tpc' = [tpc EXCEPT ![p] = [t \in Threads |-> "fork"]]
  /\ chunk' = [chunk EXCEPT ![p] = [t \in Threads |-> [cur |-> 0, hi |-> 0]]]
  /\ nextIter' = [nextIter EXCEPT ![p] = 0]
  /\ UNCHANGED <<inputs, iMarkerInt, live, Buffer_Receive_nVertex_Donor,
                 MaxLocalVertex_Donor, nPossibleDonor, DonorInfoVec, acc, race,
                 records, sizeIn, gathIn, calls>>

(* ------------------------- the parallel region ------------------------ *)

\* auto& donorInfo = DonorInfoVec[omp_get_thread_num()];
ScratchOf(t) == t

\* auto target_vertex = target_geometry->vertex[markTarget][iVertexTarget];
RecordOf(iVertexTarget) == iVertexTarget

\* A plausible slip: the ownership test left out.
SkipsTarget_Never(vertex) == FALSE

\* if (!target_geometry->node[Point_Target]->GetDomain()) continue;
SkipsTarget(vertex) == ~vertex.domain

\* vector::resize: the allocation grows when it must and never shrinks.
Resize(v, n) == [size |-> n, cap |-> IF n > v.cap THEN n ELSE v.cap]

\* roundUpDiv(nVertexTarget, 2*omp_get_max_threads())
roundUpDiv(a, b) == (a + b - 1) \div b

\* Whether a step with access a of thread t overlaps a step of another thread
\* of rank p on a location that one of the two writes.
Conflicts(p, t, a) ==
  \E u \in Threads \ {t} :
    \/ a.wr \cap (acc[p][u].rd \cup acc[p][u].wr) # {}
    \/ a.rd \cap acc[p][u].wr # {}

ResizeAccess(t) ==
  [rd |-> {}, wr |-> {<<"DonorInfoVec", ScratchOf(t)>>}]

\* Lines 126-132 with nDonor beyond the scratch vector's allocation of cap
\* elements: partial_sort orders [begin, begin + nDonor) in place and line 132
\* assigns to donorInfo[iDonor].dist, so the thread writes past the
\* allocation, into memory that is another thread's scratch vector or none of
\* the objects of this function. (With no allocation at all the first access
\* faults; up to the allocation the slots are the thread's own.)
PastTheEnd(p, t, cap) ==
  IF nDonor > cap /\ cap > 0
  THEN {{<<"elsewhere", t>>}} \cup
       {{<<"DonorInfoVec", u>>} :
          u \in {v \in Threads \ {ScratchOf(t)} : DonorInfoVec[p][v].cap > 0}}
  ELSE {{}}

\* What one iteration of the loop of lines 102-144 reads and writes; stray is
\* what it reaches past its scratch vector.
IterAccess(t, iVertexTarget, vertex, stray) ==
  IF SkipsTarget(vertex) THEN NoAccess
  ELSE [rd |-> {<<"Buffer_Receive_nVertex_Donor">>, <<"Buffer_Receive_Coord">>,
                <<"Buffer_Receive_GlobalPoint">>},
        wr |-> {<<"DonorInfoVec", ScratchOf(t)>>,
                <<"TransferRecord", RecordOf(iVertexTarget)>>} \cup stray]

\* The thread goes on to its next iteration: the next of its chunk (from is
\* the first iteration it has not run), else the first of a new chunk taken
\* from the dynamic schedule of line 101, else the end of the loop. before is
\* what the step that leads here has accessed itself, cap the allocation of
\* the thread's scratch vector.
NextIteration(p, t, from, before, cap) ==
  LET m == iMarkerInt[p]
      n == nVertexTarget(p, m)
      own == from < chunk[p][t].hi
      lo == nextIter[p]
      up == lo + roundUpDiv(n, 2 * nThreads)
      c == IF own THEN [cur |-> from, hi |-> chunk[p][t].hi]
           ELSE [cur |-> lo, hi |-> IF up < n THEN up ELSE n]
      more == own \/ lo < n
  IN
  \E stray \in PastTheEnd(p, t, cap) :
  LET it == IF more THEN IterAccess(t, c.cur, geo[m].target[p][c.cur + 1], stray)
            ELSE NoAccess
      a == [rd |-> before.rd \cup it.rd, wr |-> before.wr \cup it.wr]
  IN
  /\ chunk' = [chunk EXCEPT ![p][t] = IF more THEN c ELSE [cur |-> from, hi |-> from]]
  /\ nextIter' = [nextIter EXCEPT ![p] = IF more /\ ~own THEN c.hi ELSE @]
  /\ acc' = [acc EXCEPT ![p][t] = a]
  /\ race' = [race EXCEPT ![p] = @ \/ Conflicts(p, t, a)]
  /\ tpc' = [tpc EXCEPT ![p][t] = IF more THEN "iter" ELSE "barrier"]

\* Lines 98-101: the thread takes its scratch vector, resizes it and enters
\* the loop.
TStart(p, t) ==
  /\ pc[p] = "search"
  /\ tpc[p][t] = "fork"
  /\ DonorInfoVec' = [DonorInfoVec EXCEPT ![p][ScratchOf(t)] = Resize(@, nPossibleDonor[p])]
  /\ NextIteration(p, t, 0, ResizeAccess(t),
                   Resize(DonorInfoVec[p][ScratchOf(t)], nPossibleDonor[p]).cap)
  /\ UNCHANGED <<inputs, pc, iMarkerInt, live, memErr, Buffer_Receive_nVertex_Donor,
                 MaxLocalVertex_Donor, nPossibleDonor, Buffer_Receive, records, sizeIn,
                 gathIn, calls>>

\* Line 107: a target vertex whose node this rank does not own is passed over.
TSkip(p, t) ==
  LET m == iMarkerInt[p]
      i == chunk[p][t].cur
  IN
  /\ pc[p] = "search"
  /\ tpc[p][t] = "iter"
  /\ SkipsTarget(geo[m].target[p][i + 1])
  /\ NextIteration(p, t, i + 1, NoAccess, DonorInfoVec[p][ScratchOf(t)].cap)
  /\ UNCHANGED <<inputs, pc, iMarkerInt, live, memErr, Buffer_Receive_nVertex_Donor,
                 MaxLocalVertex_Donor, nPossibleDonor, Buffer_Receive, DonorInfoVec,
                 records, sizeIn, gathIn, calls>>

\* What lines 110-143 can store for target vertex i of marker m on rank p.
Outcomes(p, t, m, i) ==
  SearchOutcomes(CandidateList(nProcessor, Buffer_Receive_nVertex_Donor[p],
                               MaxLocalVertex_Donor[p], Buffer_Receive[p],
                               geo[m].target[p][i + 1].coord),
                 nDonor, DonorInfoVec[p][ScratchOf(t)].cap)

\* Lines 110-143: the candidates, the partial sort, the weights, the record.
TStore(p, t) ==
  LET m == iMarkerInt[p]
      i == chunk[p][t].cur
  IN
  /\ pc[p] = "search"
  /\ tpc[p][t] = "iter"
  /\ ~SkipsTarget(geo[m].target[p][i + 1])
  /\ \E o \in Outcomes(p, t, m, i) :
       /\ ~o.abort
       /\ rec' = [rec EXCEPT ![p][m][RecordOf(i) + 1] = o.rec]
  /\ stores' = [stores EXCEPT ![p][m][RecordOf(i) + 1] = @ + 1]
  /\ memErr' = [memErr EXCEPT ![p] =
                  @ \cup Use(p, {"Buffer_Receive_nVertex_Donor", "Buffer_Receive_Coord",
                                 "Buffer_Receive_GlobalPoint"})]
  /\ NextIteration(p, t, i + 1, NoAccess, DonorInfoVec[p][ScratchOf(t)].cap)
  /\ UNCHANGED <<inputs, pc, iMarkerInt, live, Buffer_Receive_nVertex_Donor,
                 MaxLocalVertex_Donor, nPossibleDonor, Buffer_Receive, DonorInfoVec,
                 sizeIn, gathIn, calls>>

\* Lines 126-133 reaching past the scratch vector's allocation: the rank dies.
TAbort(p, t) ==
  LET m == iMarkerInt[p]
      i == chunk[p][t].cur
  IN
  /\ pc[p] = "search"
  /\ tpc[p][t] = "iter"
  /\ ~SkipsTarget(geo[m].target[p][i + 1])
  /\ Aborted \in Outcomes(p, t, m, i)
  /\ pc' = [pc EXCEPT ![p] = "aborted"]
  /\ UNCHANGED <<inputs, iMarkerInt, live, memErr, Buffer_Receive_nVertex_Donor,
                 MaxLocalVertex_Donor, nPossibleDonor, Buffer_Receive, DonorInfoVec,
                 tpc, chunk, nextIter, acc, race, records, sizeIn, gathIn, calls>>

\* A plausible slip: the count buffer released with the others, every marker.
FreedAtMarkerEnd_All == ExchangeBuffers \cup {"Buffer_Receive_nVertex_Donor"}

\* Lines 147-151.
FreedAtMarkerEnd == ExchangeBuffers

\* Line 155.
FreedAtReturn == {"Buffer_Receive_nVertex_Donor"}

Free(p, bs) ==
  /\ memErr' = [memErr EXCEPT ![p] =
                  @ \cup (IF bs \subseteq live[p] THEN {}
                          ELSE {"release of a buffer that is not allocated"})]
  /\ live' = [live EXCEPT ![p] = @ \ bs]

\* The parallel region ends when every thread has left the loop; lines
\* 147-151 release the marker's buffers and the loop goes on.
RegionEnd(p) ==
  /\ pc[p] = "search"
  /\ \A t \in Threads : tpc[p][t] = "barrier"
  /\ Free(p, FreedAtMarkerEnd)
  /\ tpc' = [tpc EXCEPT ![p] = [t \in Threads |-> "idle"]]
  /\ iMarkerInt' = [iMarkerInt EXCEPT ![p] = @ + 1]
  /\ pc' = [pc EXCEPT ![p] = "loop"]
  /\ UNCHANGED <<inputs, Buffer_Receive_nVertex_Donor, MaxLocalVertex_Donor,
                 nPossibleDonor, Buffer_Receive, DonorInfoVec, chunk, nextIter, acc,
                 race, records, sizeIn, gathIn, calls>>

\* The loop ends; line 155 releases the count buffer and the function returns.
Finish(p) ==
  /\ pc[p] = "loop"
  /\ iMarkerInt[p] > nMarkerInt
  /\ Free(p, FreedAtReturn)
  /\ pc' = [pc EXCEPT ![p] = "done"]
  /\ UNCHANGED <<inputs, iMarkerInt, Buffer_Receive_nVertex_Donor,
                 MaxLocalVertex_Donor, nPossibleDonor, Buffer_Receive, DonorInfoVec,
                 tpc, chunk, nextIter, acc, race, records, sizeIn, gathIn, calls>>

Next ==
  \/ \E p \in AllRanks : Start(p)
  \/ \E p \in AllRanks : MarkerSkip(p)
  \/ \E p \in AllRanks : MarkerEnter(p)
  \/ \E p \in AllRanks : SizeDone(p)
  \/ \E p \in AllRanks : CollectDone(p)
  \/ \E p \in AllRanks, t \in Threads : TStart(p, t)
  \/ \E p \in AllRanks, t \in Threads : TSkip(p, t)
  \/ \E p \in AllRanks, t \in Threads : TStore(p, t)
  \/ \E p \in AllRanks, t \in Threads : TAbort(p, t)
  \/ \E p \in AllRanks : RegionEnd(p)
  \/ \E p \in AllRanks : Finish(p)

Spec == Init /\ [][Next]_vars

SearchSpec == InitSearch /\ [][Next]_vars

(* ------------------------ vocabulary of the claims -------------------- *)

\* The donor points of marker m that the gather brings to every rank.
GatheredDonors(m) ==
  UNION {{[gid |-> geo[m].donor[r][j].gid, proc |-> r, slot |-> j - 1,
           coord |-> geo[m].donor[r][j].coord] : j \in 1 .. Len(geo[m].donor[r])} :
           r \in AllRanks}

\* The target vertices of the run: rank, marker, local index (from 1).
TargetSlots ==
  {s \in AllRanks \X Markers \X (1 .. MaxTarget + 1) : s[3] <= Len(geo[s[2]].target[s[1]])}

Vertex(s) == geo[s[2]].target[s[1]][s[3]]
Record(s) == rec[s[1]][s[2]][s[3]]

\* The squared distance from target vertex s to donor point d.
Dist2(s, d) == PointsSquareDistance(nDim, Vertex(s).coord, d.coord)

\* At least nDonor donors were gathered for marker m.
Enough(m) == Cardinality(GatheredDonors(m)) >= nDonor

\* Entry e of a record names the gathered donor d.
Names(e, d) == e.pidx = d.gid /\ e.proc = d.proc

Named(m, e) == CHOOSE d \in GatheredDonors(m) : Names(e, d)

Coeffs(r) == [i \in 1 .. Len(r) |-> r[i].coeff]

\* An owned target vertex of a processed marker with enough donors.
Served(s) == Vertex(s).domain /\ CheckInterfaceBoundary(s[2]) /\ Enough(s[2])

(* ------------------------------- claims ------------------------------- *)

\* C1. For every domain-owned target vertex of a processed marker for which
\* at least nDonor donors were gathered, the record holds nDonor weights, each
\* 1/(d+eps) of its donor divided by the sum of the selected 1/(d+eps), and
\* they sum to exactly 1; the record is there once the rank has returned.
C1_WeightsSumToOne ==
  \A s \in TargetSlots :
    Served(s) =>
      /\ pc[s[1]] = "done" => Record(s) # <<>>
      /\ Record(s) # <<>> =>
           LET r == Record(s)
               w == [i \in 1 .. Len(r) |-> InterpNumerator(Dist2(s, Named(s[2], r[i])))]
           IN  /\ Len(r) = nDonor
               /\ \A i \in 1 .. Len(r) : \E d \in GatheredDonors(s[2]) : Names(r[i], d)
               /\ \A i \in 1 .. Len(r) : r[i].coeff = RDiv(w[i], RSum(w))
               /\ RSum(Coeffs(r)) = ROne

\* A rank has returned with a record of two different weights.
C1_Witness ==
  \E s \in TargetSlots :
    /\ Served(s) /\ pc[s[1]] = "done" /\ nDonor >= 2
    /\ Len(Record(s)) = nDonor
    /\ Record(s)[1].coeff # Record(s)[2].coeff

\* C2. For every such vertex the record names nDonor different gathered
\* donors, no gathered donor left out is strictly closer to the target than a
\* selected one, and the entries are in non-decreasing order of squared
\* distance (for nDonor = 1: the stored donor is a global argmin).
C2_NearestSelected ==
  \A s \in TargetSlots :
    (Served(s) /\ Record(s) # <<>>) =>
      LET r == Record(s)
          G == GatheredDonors(s[2])
      IN  /\ Len(r) = nDonor
          /\ \A i \in 1 .. Len(r) : \E d \in G : Names(r[i], d)
          /\ \A i, j \in 1 .. Len(r) : i # j => Named(s[2], r[i]) # Named(s[2], r[j])
          /\ \A i \in 1 .. Len(r) - 1 :
               Dist2(s, Named(s[2], r[i])) <= Dist2(s, Named(s[2], r[i + 1]))
          /\ \A d \in G :
               (\A i \in 1 .. Len(r) : ~Names(r[i], d)) =>
                 \A i \in 1 .. Len(r) : Dist2(s, d) >= Dist2(s, Named(s[2], r[i]))

\* Two of three donors were selected, at different distances, a farther one
\* was left out, and the closest of all was scanned last.
C2_Witness ==
  \E s \in TargetSlots :
    LET r == Record(s)
        G == GatheredDonors(s[2])
    IN  /\ Served(s) /\ nDonor = 2 /\ Len(r) = 2 /\ Cardinality(G) = 3
        /\ Dist2(s, Named(s[2], r[1])) < Dist2(s, Named(s[2], r[2]))
        /\ \E d \in G : Dist2(s, d) > Dist2(s, Named(s[2], r[2]))
        /\ \A d \in G : <<d.proc, d.slot>> # <<r[1].proc, Named(s[2], r[1]).slot>> =>
                          \/ d.proc < r[1].proc
                          \/ d.proc = r[1].proc /\ d.slot < Named(s[2], r[1]).slot

\* C3. With fewer than nDonor donors gathered for a processed marker, every
\* entry of a record that is written names a donor gathered for that marker
\* (the alternative being that the rank fails and writes nothing).
C3_OnlyGatheredDonors ==
  \A s \in TargetSlots :
    (CheckInterfaceBoundary(s[2]) /\ ~Enough(s[2]) /\ Record(s) # <<>>) =>
      \A i \in 1 .. Len(Record(s)) :
        \E d \in GatheredDonors(s[2]) : Names(Record(s)[i], d)

\* One rank's sequence of collective calls is a prefix of the other's.
Prefix(a, b) == Len(a) <= Len(b) /\ \A i \in 1 .. Len(a) : a[i] = b[i]

\* The ranks call the same collectives in the same order: the count
\* exchange, then the gather, once per processed marker.
C4_Lockstep ==
  /\ \A p, q \in AllRanks : Prefix(calls[p], calls[q]) \/ Prefix(calls[q], calls[p])
  /\ \A p \in AllRanks : \A i \in 1 .. Len(calls[p]) :
       /\ CheckInterfaceBoundary(calls[p][i][2])
       /\ calls[p][i][1] = (IF i % 2 = 1 THEN "Determine_ArraySize" ELSE "Collect_VertexInfo")
       /\ i % 2 = 0 => calls[p][i][2] = calls[p][i - 1][2]
       /\ (i % 2 = 1 /\ i > 1) => calls[p][i][2] > calls[p][i - 1][2]

\* Rank p waits in a collective that some rank has not joined yet.
Waiting(p) ==
  \/ pc[p] = "Determine_ArraySize" /\ \E r \in AllRanks : sizeIn[iMarkerInt[p]][r] = -1
  \/ pc[p] = "Collect_VertexInfo" /\ \E r \in AllRanks : gathIn[iMarkerInt[p]][r] = <<>>

\* Without a rank that has died no rank is left waiting for good.
C4_NoWaitUnlessAborted ==
  (\A p \in AllRanks : pc[p] # "aborted") =>
    ~ \E p \in AllRanks :
        /\ Waiting(p)
        /\ \A q \in AllRanks : Waiting(q) \/ pc[q] \in {"done", "aborted"}

\* C4. All ranks take the same decision at the gate and call the same
\* collectives in the same order, and nothing keeps Set_TransferCoeff from
\* returning on every rank: no rank leaves the call other than by returning,
\* and no rank waits in a collective that the others will never join.
C4_LockstepAndReturn ==
  /\ C4_Lockstep
  /\ \A p \in AllRanks : pc[p] # "aborted"
  /\ ~ \E p \in AllRanks :
         /\ Waiting(p)
         /\ \A q \in AllRanks : Waiting(q) \/ pc[q] \in {"done", "aborted"}

\* C5 as stated. At the start of every marker iteration and after the return
\* no exchange buffer is allocated, and none was misused.
C5_NoBufferLiveBetweenMarkers ==
  \A p \in AllRanks :
    /\ memErr[p] = {}
    /\ pc[p] \in {"loop", "done"} => live[p] = {}

\* C5 as amended. The four coordinate and identifier buffers are allocated
\* while a marker is processed and released before the next marker begins (a
\* skipped marker allocates none); the count buffer is allocated once before
\* the marker loop and released once after it. At the start of every marker
\* iteration only the count buffer is allocated, after the return none is, and
\* no buffer is released twice or used while not allocated.
C5_BufferLifetimes ==
  \A p \in AllRanks :
    /\ memErr[p] = {}
    /\ pc[p] = "start" => live[p] = {}
    /\ pc[p] \in {"loop", "Determine_ArraySize"} => live[p] = {"Buffer_Receive_nVertex_Donor"}
    /\ pc[p] \in {"Collect_VertexInfo", "search"} =>
         live[p] = ExchangeBuffers \cup {"Buffer_Receive_nVertex_Donor"}
    /\ pc[p] = "done" => live[p] = {}

\* A rank has returned after a processed marker followed by a skipped one.
C5_Witness ==
  \E p \in AllRanks :
    /\ pc[p] = "done" /\ live[p] = {}
    /\ \E m \in Markers : CheckInterfaceBoundary(m) /\ m + 1 \in Markers
                          /\ ~CheckInterfaceBoundary(m + 1)

\* The donors of marker m at the least squared distance from target vertex s.
Nearest(s) ==
  {d \in GatheredDonors(s[2]) : \A e \in GatheredDonors(s[2]) : Dist2(s, d) <= Dist2(s, e)}

\* C6. With nDonor = 1 and several gathered donors at the same least squared
\* distance, the stored donor is the first of them in scan order: lowest
\* rank, and of that rank the lowest slot.
C6_FirstInScanOrder ==
  \A s \in TargetSlots :
    (nDonor = 1 /\ Record(s) # <<>> /\ Cardinality(Nearest(s)) >= 2) =>
      \E d \in Nearest(s) :
        /\ Names(Record(s)[1], d)
        /\ \A e \in Nearest(s) :
             e.proc > d.proc \/ (e.proc = d.proc /\ e.slot >= d.slot)

\* What a run with all donor points of marker m on a single rank can select
\* for a target at Coord_i: the sets of donor identifiers it can store (and
\* the set of OutOfRange alone for a run that dies).
OneRankSelections(m, Coord_i) ==
  LET G == GatheredDonors(m)
      ids == SortedSeq({d.gid : d \in G})
      n == Len(ids)
      don == [i \in 1 .. n |->
                [gid |-> ids[i],
                 coord |-> (CHOOSE d \in G : d.gid = ids[i]).coord]]
      bufs == Gathered(1, [r \in {0} |-> SendSlice(don, n)])
      cand == CandidateList(1, [r \in {0} |-> n], n, bufs, Coord_i)
  IN  {IF o.abort THEN {OutOfRange} ELSE {o.rec[i].pidx : i \in 1 .. Len(o.rec)} :
         o \in SearchOutcomes(cand, nDonor, n)}

RecordIds(r) == {r[i].pidx : i \in 1 .. Len(r)}

NoTies(s) ==
  \A d, e \in GatheredDonors(s[2]) : d # e => Dist2(s, d) # Dist2(s, e)

\* C7. With no two donors equidistant from the target, the set of donor
\* identifiers selected is the one a run with all donors on a single rank
\* selects, however the donor points are dealt to however many ranks.
C7_PartitionInvariant ==
  \A s \in TargetSlots :
    (Vertex(s).domain /\ Record(s) # <<>> /\ NoTies(s)) =>
      OneRankSelections(s[2], Vertex(s).coord) = {RecordIds(Record(s))}

\* C7 where the code's behaviour is defined: the same, for targets with at
\* least nDonor donors.
C7_PartitionInvariantWhenServed ==
  \A s \in TargetSlots :
    (Served(s) /\ Record(s) # <<>> /\ NoTies(s)) =>
      OneRankSelections(s[2], Vertex(s).coord) = {RecordIds(Record(s))}

C9_NoDataRace ==
  \A p \in AllRanks :
    /\ ~race[p]
    /\ \A t \in Threads :
         /\ \A l \in acc[p][t].rd \cup acc[p][t].wr :
              l[1] = "DonorInfoVec" => l[2] = t
         /\ \A l \in acc[p][t].wr :
              l[1] \notin {"Buffer_Receive_nVertex_Donor", "Buffer_Receive_Coord",
                           "Buffer_Receive_GlobalPoint"}
         /\ \A u \in Threads \ {t} :
              acc[p][t].wr \cap (acc[p][u].rd \cup acc[p][u].wr) = {}
    /\ \A m \in Markers : \A v \in 1 .. Len(geo[m].target[p]) :
         /\ stores[p][m][v] <= 1
         /\ (pc[p] = "done" /\ geo[m].target[p][v].domain) => stores[p][m][v] = 1

\* Where every processed marker has at least nDonor gathered donors no
\* thread reaches past its scratch vector, and the threads' steps are as C9
\* describes them.
C9_NoDataRaceWhenServed ==
  (\A m \in Markers : CheckInterfaceBoundary(m) => Enough(m)) => C9_NoDataRace

\* C10. Only the record of a target vertex whose node the rank owns, on a
\* marker that is processed and that the rank has reached, is allocated and
\* written; every other record is as it was at the call.
C10_OnlyOwnedTargetsWritten ==
  \A s \in TargetSlots :
    (Record(s) # <<>> \/ stores[s[1]][s[2]][s[3]] # 0) =>
      /\ Vertex(s).domain
      /\ CheckInterfaceBoundary(s[2])
      /\ iMarkerInt[s[1]] >= s[2]
      /\ pc[s[1]] # "start"

\* A rank has returned having written the record of an owned vertex and left
\* alone that of a halo vertex of the same marker.
C10_Witness ==
  \E s, h \in TargetSlots :
    /\ s[1] = h[1] /\ s[2] = h[2] /\ pc[s[1]] = "done"
    /\ Vertex(s).domain /\ Record(s) # <<>>
    /\ ~Vertex(h).domain /\ Record(h) = <<>>

\* The threads that are in the search of a target vertex: rank and thread.
Searching ==
  {x \in AllRanks \X Threads :
     /\ pc[x[1]] = "search" /\ tpc[x[1]][x[2]] = "iter"
     /\ ~SkipsTarget(geo[iMarkerInt[x[1]]].target[x[1]][chunk[x[1]][x[2]].cur + 1])}

\* The candidates of the target that thread x[2] of rank x[1] is searching.
CandidatesOf(x) ==
  LET p == x[1]
      m == iMarkerInt[p]
  IN  CandidateList(nProcessor, Buffer_Receive_nVertex_Donor[p], MaxLocalVertex_Donor[p],
                    Buffer_Receive[p],
                    geo[m].target[p][chunk[p][x[2]].cur + 1].coord)

\* The fill loop of C11: every read of the gathered buffers is at a slot
\* below the count its rank brought to the count exchange, inside the
\* nProcessor x MaxLocalVertex_Donor buffers, at the donor point of that rank
\* and slot and so never at padding; and the candidates written are as many
\* as the counts sum to, which is the size of the scratch vector, so every
\* write of a candidate is inside the vector.
C11_FillInBounds ==
  \A x \in Searching :
    LET p == x[1]
        m == iMarkerInt[p]
        maxLoc == MaxLocalVertex_Donor[p]
        reads == FillReads(nProcessor, Buffer_Receive_nVertex_Donor[p], maxLoc)
        scratch == DonorInfoVec[p][ScratchOf(x[2])]
    IN  /\ \A a \in reads :
             /\ a.slot < sizeIn[m][a.proc]
             /\ a.slot < maxLoc
             /\ a.idx >= 0 /\ a.idx < nProcessor * maxLoc
             /\ a.idx < Len(Buffer_Receive[p].gp)
             /\ a.idx * nDim + nDim - 1 < Len(Buffer_Receive[p].coord)
             /\ At(Buffer_Receive[p].gp, a.idx) = geo[m].donor[a.proc][a.slot + 1].gid
             /\ Coord_j(Buffer_Receive[p].coord, a.idx) = geo[m].donor[a.proc][a.slot + 1].coord
        /\ Cardinality(reads) = Len(CandidatesOf(x))
        /\ Len(CandidatesOf(x)) = nPossibleDonor[p]
        /\ nPossibleDonor[p] = scratch.size
        /\ \A i \in FillWrites(CandidatesOf(x)) : i < scratch.size

\* C11. During the search every read of the gathered coordinate and
\* identifier buffers is at a slot below its rank's negotiated count and
\* inside the buffers, padding is never read, the candidates written to the
\* scratch vector are as many as its size, and no write to the scratch vector
\* (of a candidate, of the partial sort, of a weight) is out of its bounds.
C11_NoAccessOutOfBounds ==
  /\ C11_FillInBounds
  /\ \A x \in Searching :
       \A i \in SortWrites(DonorInfoVec[x[1]][ScratchOf(x[2])].size, nDonor) :
         i < DonorInfoVec[x[1]][ScratchOf(x[2])].size

\* C11 for the markers with at least nDonor gathered donors: there no access
\* of the search is out of bounds.
C11_InBoundsWhenServed ==
  (\A m \in Markers : CheckInterfaceBoundary(m) => Enough(m)) => C11_NoAccessOutOfBounds

\* A search that reads past a padded slice: the first rank holds fewer donor
\* points than the second, and the target is searched over both.
C11_PaddingPassedOver ==
  \E x \in Searching :
    /\ nProcessor = 2
    /\ Buffer_Receive_nVertex_Donor[x[1]][0] < MaxLocalVertex_Donor[x[1]]
    /\ Buffer_Receive_nVertex_Donor[x[1]][0] >= 1
    /\ Buffer_Receive_nVertex_Donor[x[1]][1] = MaxLocalVertex_Donor[x[1]]
    /\ PadValue \in {Buffer_Receive[x[1]].gp[i] : i \in 1 .. Len(Buffer_Receive[x[1]].gp)}

====
